---- MODULE Spec2Model ----
(***************************************************************************)
(* Conversation handling of the travel planner: the /plans/chat and        *)
(* /plans/generate handlers of api/routes/plans_routes.py, the travel_plans *)
(* table they read and write, and the worker processes that run them.      *)
(***************************************************************************)
EXTENDS Integers, Sequences, FiniteSets, TLC

\* ------------------------------------------------------------------ bounds
\* Worker processes serving requests (start.py starts gunicorn with several).
NumWorkers == 2
\* Requests accepted in one behaviour.
MaxRequests == 3
\* Rows the travel_plans table may hold.
MaxPlans == 2
\* Steps one agent graph run may take before it is stopped (langgraph's
\* recursion limit, which neither build_graph nor the config of line 72
\* sets, so that the library's default of 25 holds; kept small here).
RecursionLimit == 4
\* Tool calls one model output may hold.
MaxToolCalls == 2
\* The limit RateLimiter.is_allowed is called with (60 by default).
MaxAllowed == 2
\* Minutes the clock is seen to advance.
MaxMinutes == 1
\* Rows the users table may hold.
MaxUsers == 2
\* Password-reset tokens issued in one behaviour.
MaxTokens == 2
\* Hours the clock is followed for after the first request.
MaxClock == 26

\* ------------------------------------------------------- program constants
\* plans_routes.py line 75
max_retries == 2
\* auth_routes_fixed.py line 226: timedelta(hours=24)
hours == 24

Workers == 1..NumWorkers
PlanIds == 1..MaxPlans
Users == {1, 2}
\* Users who ask for a new plan; user 2 owns none and asks about those of
\* user 1.
Planners == {1}
Destinations == {"Goa"}
\* Wall-clock seconds read by int(time.time()): the requests of a behaviour
\* all fall in one clock second.
Times == {7}
\* Message texts are sequences of text pieces, so that formatting is
\* concatenation.
UserMessages == {<<"q1">>, <<"q2">>}
\* Final answers the language model may give to a follow-up.
Answers == {<<"a1">>}
\* Itineraries the language model may write for a new plan.
PlanContents == {<<"plan">>}
\* Texts of the exceptions react_app.invoke may raise.
InvokeErrors == {"tool_use_failed", "Failed to call a function", "model unavailable"}
\* Outcomes of the database write of a conversation.
SaveOutcomes == {"saved", "no_plan", "raised"}

VARIABLES
    db,       \* travel_plans table: plan id -> row
    pc,       \* per worker: where its current handler stands
    loc,      \* per worker: the handler's local variables
    resp,     \* the response sent last, by any worker
    nreq,     \* requests accepted so far
    turns,    \* history: per plan, the follow-ups saved so far, in order
    serial,   \* history: per plan, no two handlers on it have overlapped
    memory,   \* per worker: thread ids its MemorySaver holds a checkpoint for
    graph,    \* one follow-up turn seen step by step inside react_app.invoke
    legacy,   \* POST /query and /plan-trip: the rate limiter and the last request
    tool,     \* the place-search tool call made last
    limiter,  \* RateLimiter: its dict, the clock and the call made last
    auth      \* users table, password-reset tokens, and the auth request answered last

\* The handlers and the table, where react_app.invoke is one step.
handlers == <<db, pc, loc, resp, nreq, turns, serial, memory>>

\* What the plans routes and the agent graph leave alone.
apart == <<legacy, tool, limiter, auth>>

vars == <<db, pc, loc, resp, nreq, turns, serial, memory, graph, legacy, tool, limiter, auth>>

\* ------------------------------------------------------------------ data
None == <<>>

Msg(role, content) == [role |-> role, content |-> content]

NoRow ==
    [exists |-> FALSE, user_id |-> 0, destination |-> "", content |-> <<>>,
     conversation_history |-> <<>>, thread_id |-> None]

\* Local variables of a handler; outcomes and owed are history: how each
\* react_app.invoke of the turn ended, and the turns that were answered with
\* a failed save just before this one began.
IdleLoc ==
    [op |-> "none", user |-> 0, plan_id |-> 0, destination |-> "",
     message |-> <<>>, conversation_history |-> <<>>,
     langgraph_messages |-> <<>>, thread_id |-> None, attempt |-> 0,
     ai_response |-> <<>>, outcomes |-> <<>>, owed |-> {}]

\* A response: the status and detail of an error, or the fields of
\* ChatResponse.  The rest is history of the turn answered: the user message
\* it carried, the answer it reached, how each react_app.invoke ended, the
\* unsaved turns it began after, how its save ended ("none" when it
\* made none, "plan" when the save returned the plan, else "no_plan" or
\* "raised"), and the destination of the plan as the handler read it.
NoResp ==
    [op |-> "none", user |-> 0, plan_id |-> 0, status |-> 0, detail |-> <<>>,
     message |-> <<>>, conversation_history |-> <<>>, thread_id |-> None,
     request |-> <<>>, answer |-> <<>>, outcomes |-> <<>>, owed |-> {},
     save |-> "none", destination |-> ""]

StatusResp(op, user, plan_id, status, detail) ==
    [NoResp EXCEPT !.op = op, !.user = user, !.plan_id = plan_id,
                   !.status = status, !.detail = detail]

IsPrefix(s, t) == Len(s) <= Len(t) /\ SubSeq(t, 1, Len(s)) = s

Contains(s, x) == \E i \in 1..Len(s) : s[i] = x

\* get_travel_plan without the filter on the owner.
get_travel_plan_AnyUser(d, plan_id, user_id) ==
    IF plan_id \in PlanIds /\ d[plan_id].exists
    THEN d[plan_id]
    ELSE NoRow

\* crud.get_travel_plan: the row with this id owned by this user, or NoRow.
get_travel_plan(d, plan_id, user_id) ==
    IF plan_id \in PlanIds /\ d[plan_id].exists /\ d[plan_id].user_id = user_id
    THEN d[plan_id]
    ELSE NoRow

\* HumanMessage / AIMessage conversion of the stored log.
ToLangChain(history) ==
    [i \in 1..Len(history) |->
        IF history[i].role = "user"
        THEN [type |-> "human", content |-> history[i].content]
        ELSE [type |-> "ai", content |-> history[i].content]]

\* f"user_{current_user.id}_plan_{plan_id}"
LazyThreadId(user_id, plan_id) == <<"user_", user_id, "_plan_", plan_id>>

\* f"user_{current_user.id}_new_plan_{int(time.time())}"
NewThreadId(user_id, t) == <<"user_", user_id, "_new_plan_", t>>

\* The test on str(invoke_error) that makes an error a tool-calling error.
IsToolCallError(e) == e \in {"tool_use_failed", "Failed to call a function"}

\* The fallback answer given when the last attempt fails.
FallbackResponse(destination) ==
    <<"I apologize, but I'm having trouble processing your request about ",
      destination,
      ". Please try rephrasing your question or ask something more specific about your trip plan.">>

\* Simplify leaving the messages as they were.
Simplify_Unchanged(msgs) == msgs

\* The rewrite of the last user message before a retry.
Simplify(msgs) ==
    IF Len(msgs) > 0 /\ msgs[Len(msgs)].type = "human"
    THEN [msgs EXCEPT ![Len(msgs)] =
            [type |-> "human",
             content |-> <<"Please provide information about: ">> \o msgs[Len(msgs)].content]]
    ELSE msgs

\* f"Plan a {duration}-day trip to {destination}" (the optional parts left out)
FullQuery(destination) == <<"Plan a trip to ", destination>>

\* crud.update_conversation_history: on success the row's log and thread id
\* are replaced in one write; otherwise the table is left as it was.
update_conversation_history(d, plan_id, user_id, history, thread_id, outcome) ==
    IF outcome = "saved" /\ get_travel_plan(d, plan_id, user_id).exists
    THEN [d EXCEPT ![plan_id].conversation_history = history,
                   ![plan_id].thread_id = thread_id]
    ELSE d

\* Whether that write returns a plan to its caller.
SaveReturnsPlan(d, plan_id, user_id, outcome) ==
    outcome = "saved" /\ get_travel_plan(d, plan_id, user_id).exists

\* Text of the exception a failing database write raises.
DatabaseError == "database error"

\* detail of the 500 answers of continue_conversation.
SaveFailedDetail == <<"Failed to save conversation to database">>
ProcessFailedDetail(e) == <<"Failed to process message: ", e>>
\* detail of the 500 answer of generate_and_save_travel_plan.
GenerateFailedDetail(e) == <<"Failed to generate travel plan: ", e>>
NotFoundDetail == <<"Travel plan not found">>

\* A handler that has answered that it could not save its turn.
SaveFailed(r) ==
    /\ r.op = "chat"
    /\ r.status = 500
    /\ r.detail \in {SaveFailedDetail, ProcessFailedDetail(DatabaseError)}

\* Lines 305-332: GET /plans/{plan_id}/history.
get_conversation_history(d, plan_id, user_id) ==
    LET plan == get_travel_plan(d, plan_id, user_id)
    IN  IF ~plan.exists
        THEN [status |-> 404, plan_id |-> plan_id, thread_id |-> None,
              conversation |-> <<>>, message_count |-> 0]
        ELSE [status |-> 200, plan_id |-> plan_id, thread_id |-> plan.thread_id,
              conversation |-> plan.conversation_history,
              message_count |-> Len(plan.conversation_history)]

\* The turn on this plan that was answered last with a failed save: its user
\* message and its answer.
Unsaved(p) ==
    IF resp.plan_id = p /\ SaveFailed(resp)
    THEN {<<Msg("user", resp.request), Msg("assistant", resp.answer)>>}
    ELSE {}

\* Idle worker processes are interchangeable: a request is accepted by the
\* first of them.
Accepts(w) ==
    /\ pc[w] = "idle"
    /\ \A v \in Workers : pc[v] = "idle" => w <= v

\* Another handler is at work on this plan.
Busy(p, w) ==
    \E v \in Workers \ {w} : pc[v] # "idle" /\ loc[v].plan_id = p

\* ------------------------------------------------ POST /query, /plan-trip: data
\* Field(min_length=5, max_length=1000) of QueryRequest.question.
min_length == 5
max_length == 1000
\* Field(ge=1, le=30) of TravelPlanRequest.duration.
ge == 1
le == 30
\* Default of RateLimiter.is_allowed's limit, the one check_rate_limit uses.
limit == 60

\* Values of the x-real-ip header, "unknown" when a request has none; all
\* requests fall in one minute window.
ClientIps == {"unknown"}

valid_preferences ==
    {"cultural", "adventure", "relaxing", "food", "nightlife",
     "shopping", "nature", "historical", "beach", "mountain",
     "city", "luxury", "budget", "family", "romantic"}

\* str.lower on the preference texts requests carry.
lower(pref) ==
    CASE pref = "Food" -> "food"
      [] pref = "BEACH" -> "beach"
      [] OTHER -> pref

\* Texts are sequences of characters, so that their length is the text's.
QuestionTexts ==
    {<<>>, <<"a", "b", "c">>, <<"G", "o", "a", "?">>,
     <<"P", "a", "r", "i", "s">>, <<"P", "a", "r", "i", "s", "?">>}
DestinationTexts == {<<"G", "o", "a">>}
Durations == {0, 1, 30, 31}
PreferenceLists ==
    {<<>>, <<"food">>, <<"Food">>, <<"invalid_preference_xyz">>,
     <<"beach", "invalid_preference_xyz">>}

\* JSON bodies of POST /query: the question may be absent.
QueryBodies ==
    [fields : {{}}, question : {<<>>}, destination : {<<>>}, duration : {0},
     preferences : {<<>>}]
    \cup [fields : {{"question"}}, question : QuestionTexts,
          destination : {<<>>}, duration : {0}, preferences : {<<>>}]

\* JSON bodies of POST /plan-trip: preferences are optional.
TravelPlanBodies ==
    [fields : {{"destination", "duration"}}, question : {<<>>},
     destination : DestinationTexts, duration : Durations,
     preferences : {<<>>}]
    \cup [fields : {{"destination", "duration", "preferences"}},
          question : {<<>>}, destination : DestinationTexts,
          duration : Durations, preferences : PreferenceLists]

\* No request to /query or /plan-trip has been made in this minute.
NoRequest ==
    [requests |-> [ip \in ClientIps |-> 0], path |-> "none",
     client_ip |-> "none",
     body |-> [fields |-> {}, question |-> <<>>, destination |-> <<>>,
               duration |-> 0, preferences |-> <<>>],
     status |-> 0, invoked |-> FALSE, logged |-> FALSE]

\* RateLimiter.is_allowed: its result, and the counters it leaves.
is_allowed(requests, client_ip, lim) == requests[client_ip] < lim

is_allowed_requests(requests, client_ip, lim) ==
    IF requests[client_ip] >= lim
    THEN requests
    ELSE [requests EXCEPT ![client_ip] = @ + 1]

\* QueryRequest: the question is required and its length is bounded.
QueryRequest(body) ==
    /\ "question" \in body.fields
    /\ Len(body.question) >= min_length
    /\ Len(body.question) <= max_length

\* A validator that lets every preference pass.
validate_preferences_Any(v) == TRUE

validate_preferences(v) ==
    \A i \in DOMAIN v : lower(v[i]) \in valid_preferences

TravelPlanRequest(body) ==
    /\ {"destination", "duration"} \subseteq body.fields
    /\ Len(body.destination) >= 2
    /\ Len(body.destination) <= 100
    /\ body.duration >= ge
    /\ body.duration <= le
    /\ "preferences" \in body.fields => validate_preferences(body.preferences)

DigitChars == <<"0", "1", "2", "3", "4", "5", "6", "7", "8", "9">>

RECURSIVE str(_)
str(n) ==
    IF n < 10
    THEN <<DigitChars[n + 1]>>
    ELSE str(n \div 10) \o <<DigitChars[(n % 10) + 1]>>

\* plan_detailed_trip's query text; the optional parts only lengthen it.
full_query(body) ==
    <<"P", "l", "a", "n", " ", "a", " ">> \o str(body.duration)
        \o <<"-", "d", "a", "y", " ", "t", "r", "i", "p", " ", "t", "o", " ">>
        \o body.destination

\* ------------------------------------------------ place-search tools: data
Places == {"Goa", "Paris", "Rome"}

\* How a call of the Google Places wrapper may end: with a result, with an
\* empty result, or with an exception.
GoogleOutcomes ==
    {[kind |-> "returns", value |-> "museums, forts"],
     [kind |-> "returns", value |-> "beaches"],
     [kind |-> "returns", value |-> ""],
     [kind |-> "raises", value |-> ""]}

\* How a call of the Tavily wrapper may end.
TavilyOutcomes ==
    {[kind |-> "returns", value |-> "markets"],
     [kind |-> "returns", value |-> ""],
     [kind |-> "raises", value |-> ""]}

\* No tool has been called.
NoCall ==
    [name |-> "none", place |-> "", google |-> [kind |-> "none", value |-> ""],
     tavily |-> [kind |-> "none", value |-> ""], result |-> None]

\* The body the four tools share: the Google result when it is not empty;
\* when Google raises, the Tavily result, or the "Unable to fetch" text when
\* Tavily raises too; a function that ends without a return gives None.
place_search(google_text, tavily_text, unable_text, google, tavily) ==
    IF google.kind = "returns"
    THEN IF google.value # ""
         THEN google_text \o <<google.value>>
         ELSE None
    ELSE IF tavily.kind = "returns"
         THEN tavily_text \o <<tavily.value>>
         ELSE unable_text

\* ------------------------------------------------ RateLimiter: data
\* Values of client_ip: an IPv4 address, and two IPv6 addresses.
RateIps == {"10.0.0.1", "2001:4860::1", "::1"}

\* int(time.time() // 60) when the first call is made.
FirstMinute == 29000000
Minutes == FirstMinute..(FirstMinute + MaxMinutes)

\* client_ip.split(':')
ColonFields(client_ip) ==
    CASE client_ip = "2001:4860::1" -> <<"2001", "4860", "", "1">>
      [] client_ip = "::1" -> <<"", "", "1">>
      [] OTHER -> <<client_ip>>

\* The key f"{client_ip}:{minute_window}".  The window is an integer and
\* holds no colon, so that two keys are the same text exactly when their
\* address and their window are the same.
Key(client_ip, minute_window) ==
    [client_ip |-> client_ip, minute_window |-> minute_window]

\* int(key.split(':')[1]): the window for an address without a colon, else
\* the address's second field when it reads as a decimal number, else a
\* ValueError.
KeyMinute(key) ==
    LET fields == ColonFields(key.client_ip)
    IN  IF Len(fields) = 1
        THEN [ok |-> TRUE, value |-> key.minute_window]
        ELSE IF fields[2] = "4860"
        THEN [ok |-> TRUE, value |-> 4860]
        ELSE [ok |-> FALSE, value |-> 0]

\* No call has been made: the dict is empty.  granted is history: the calls
\* of each address answered True in the current minute.
NoCalls ==
    [requests |-> <<>>, minute |-> FirstMinute, client_ip |-> "none",
     result |-> "none", granted |-> [ip \in RateIps |-> 0]]

\* The dict with a key set to a value.
SetItem(requests, key, value) ==
    [k \in DOMAIN requests \cup {key} |-> IF k = key THEN value ELSE requests[k]]

\* _cleanup_old_entries: whether it raises, and the dict it leaves otherwise.
cleanup_raises(requests) ==
    \E key \in DOMAIN requests : ~KeyMinute(key).ok

_cleanup_old_entries(requests, current_minute) ==
    LET keys_to_remove ==
            {key \in DOMAIN requests : current_minute - KeyMinute(key).value > 5}
    IN  [k \in DOMAIN requests \ keys_to_remove |-> requests[k]]

\* RateLimiter.is_allowed: what the call gives ("True", "False", or the
\* "ValueError" it raises) and the dict it leaves.
RateLimiter_is_allowed(requests, client_ip, lim, minute_window) ==
    LET key == Key(client_ip, minute_window)
        known == IF key \in DOMAIN requests THEN requests ELSE SetItem(requests, key, 0)
        counted == SetItem(known, key, known[key] + 1)
    IN  IF known[key] >= lim
        THEN [result |-> "False", requests |-> known]
        ELSE IF cleanup_raises(counted)
        THEN [result |-> "ValueError", requests |-> counted]
        ELSE [result |-> "True",
              requests |-> _cleanup_old_entries(counted, minute_window)]

\* ------------------------------------------------ auth routes: data
UserIds == 1..MaxUsers
Emails == {"a@x.org", "b@x.org", "c@x.org"}
Usernames == {"ann", "bob", "cy"}
\* Passwords with their lengths: ResetPasswordRequest asks for 6 characters,
\* UserUpdate for 8.
Passwords == {"secret", "longsecret"}
len(password) == IF password = "secret" THEN 6 ELSE 10
\* secrets.token_urlsafe(32): the n-th token issued is unlike the others.
Tokens == 1..MaxTokens
\* Hours that pass between two requests.
ClockStep == 13

\* pwd_context.hash
hash(password) == <<"hash", password>>

NoUser ==
    [exists |-> FALSE, email |-> "", username |-> "", hashed_password |-> <<>>]

\* No reset handler is between its checks and its update.
NoReset ==
    [pc |-> "idle", token |-> 0, new_password |-> "", user_id |-> 0,
     email |-> "", expires |-> 0]

\* What the last register request met: whether its email and its username
\* were in the table, and whether the database answered.
NoRegistration == [email_taken |-> FALSE, username_taken |-> FALSE, db |-> "none"]

\* An answer of an auth route; token is the reset token the request named.
AuthResp(op, status, detail, token) ==
    [op |-> op, status |-> status, detail |-> detail, token |-> token]

\* An empty users table and an empty password_reset_tokens dict.  mail holds
\* the tokens whose email task is queued; changes is history: every
\* password change a reset made.
NoAuth ==
    [users |-> [id \in UserIds |-> NoUser],
     tokens |-> <<>>, issued |-> 0, mail |-> {}, now |-> 0,
     reset |-> NoReset, last |-> AuthResp("none", 0, "", 0), changes |-> <<>>,
     asked |-> NoRegistration]

\* crud.get_user_by_email / get_user_by_username: the id of the first such
\* row, or 0.
get_user_by_email(users, email) ==
    IF \E id \in UserIds : users[id].exists /\ users[id].email = email
    THEN CHOOSE id \in UserIds :
            /\ users[id].exists /\ users[id].email = email
            /\ \A other \in UserIds :
                (users[other].exists /\ users[other].email = email) => id <= other
    ELSE 0

get_user_by_username(users, username) ==
    IF \E id \in UserIds : users[id].exists /\ users[id].username = username
    THEN CHOOSE id \in UserIds :
            /\ users[id].exists /\ users[id].username = username
            /\ \A other \in UserIds :
                (users[other].exists /\ users[other].username = username) => id <= other
    ELSE 0

\* DelItem leaving the key in the dict.
DelItem_Keep(d, key) == d

\* del d[key]
DelItem(d, key) == [k \in DOMAIN d \ {key} |-> d[k]]

\* ------------------------------------------------------------------ init
\* No turn is looked at step by step.  checkpoint is what the MemorySaver of
\* the process holds for the turn's thread id.
NoRun ==
    [node |-> "none", langgraph_messages |-> <<>>, messages |-> <<>>,
     checkpoint |-> <<>>, steps |-> 0, attempt |-> 0, destination |-> "",
     ai_response |-> <<>>, result |-> "none"]

InitHandlers ==
    /\ db = [p \in PlanIds |-> NoRow]
    /\ pc = [w \in Workers |-> "idle"]
    /\ loc = [w \in Workers |-> IdleLoc]
    /\ resp = NoResp
    /\ nreq = 0
    /\ turns = [p \in PlanIds |-> <<>>]
    /\ serial = [p \in PlanIds |-> TRUE]
    /\ memory = [w \in Workers |-> {}]

Init ==
    /\ InitHandlers
    /\ graph = NoRun
    /\ legacy = NoRequest
    /\ tool = NoCall
    /\ limiter = NoCalls
    /\ auth = NoAuth

\* ------------------------------------------------ POST /plans/chat/{plan_id}
\* The handler is an async function that never awaits: a worker process runs
\* it from start to end before it takes another request, and blocks in
\* react_app.invoke meanwhile.  The worker processes run side by side and
\* share the database only.

\* LoadHistory seeding the log anew on every follow-up.
LoadHistory_AlwaysSeed(plan) == <<Msg("assistant", plan.content)>>

\* Lines 47-54: the stored log, or the plan's content as a first assistant
\* message when nothing is stored.
LoadHistory(plan) ==
    IF plan.conversation_history = <<>>
    THEN <<Msg("assistant", plan.content)>>
    ELSE plan.conversation_history

\* Line 71: plan.thread_id or f"user_{current_user.id}_plan_{plan_id}"
ThreadIdOf(plan, user_id, plan_id) ==
    IF plan.thread_id # None THEN plan.thread_id ELSE LazyThreadId(user_id, plan_id)

\* Lines 37-76: find the plan, load or seed the log, append the user message.
continue_conversation_begin(w) ==
    /\ Accepts(w)
    /\ nreq < MaxRequests
    /\ nreq' = nreq + 1
    /\ \E u \in Users, p \in PlanIds, m \in UserMessages :
        LET plan == get_travel_plan(db, p, u)
            conversation_history == Append(LoadHistory(plan), Msg("user", m))
        IN  IF ~plan.exists
            THEN /\ resp' = StatusResp("chat", u, p, 404, NotFoundDetail)
                 /\ UNCHANGED <<pc, loc, serial, turns>>
            ELSE /\ pc' = [pc EXCEPT ![w] = "invoke"]
                 /\ loc' = [loc EXCEPT ![w] =
                        [IdleLoc EXCEPT !.op = "chat", !.user = u, !.plan_id = p,
                                        !.destination = plan.destination,
                                        !.message = m,
                                        !.conversation_history = conversation_history,
                                        !.langgraph_messages = ToLangChain(conversation_history),
                                        !.thread_id = ThreadIdOf(plan, u, p),
                                        !.owed = Unsaved(p)]]
                 /\ resp' = resp
                 /\ serial' = [serial EXCEPT ![p] = serial[p] /\ ~Busy(p, w)]
                 /\ turns' = IF Busy(p, w) THEN [turns EXCEPT ![p] = <<>>] ELSE turns
    /\ UNCHANGED <<db, memory, graph, apart>>

\* UpdatedHistory without the append of the answer.
UpdatedHistory_NoAnswer(conversation_history, ai_response) == conversation_history

\* UpdatedHistory appending the answer twice.
UpdatedHistory_AnswerTwice(conversation_history, ai_response) ==
    conversation_history
        \o <<Msg("assistant", ai_response), Msg("assistant", ai_response)>>

\* Lines 108-110: a new list, the log with the assistant's answer appended.
UpdatedHistory(conversation_history, ai_response) ==
    Append(conversation_history, Msg("assistant", ai_response))

\* ChatResult without the test of what the save returned.
ChatResult_Unchecked(l, ai_response, updated_conversation_history, updated_plan, outcome) ==
    [NoResp EXCEPT !.op = "chat", !.user = l.user, !.plan_id = l.plan_id,
                   !.status = 200,
                   !.message = ai_response,
                   !.conversation_history = updated_conversation_history,
                   !.thread_id = l.thread_id]

\* Lines 121-132: 500 when the save returned no plan, else the ChatResponse;
\* lines 136-140: 500 when the save raised.
ChatResult(l, ai_response, updated_conversation_history, updated_plan, outcome) ==
    IF updated_plan
    THEN [NoResp EXCEPT !.op = "chat", !.user = l.user, !.plan_id = l.plan_id,
                        !.status = 200,
                        !.message = ai_response,
                        !.conversation_history = updated_conversation_history,
                        !.thread_id = l.thread_id]
    ELSE StatusResp("chat", l.user, l.plan_id, 500,
                    IF outcome = "raised" THEN ProcessFailedDetail(DatabaseError)
                    ELSE SaveFailedDetail)

\* Lines 108-140: append the answer, store the log, answer the caller.
SaveAndRespond(w, ai_response, outcomes) ==
    \E outcome \in SaveOutcomes :
        LET l == loc[w]
            p == l.plan_id
            updated_conversation_history == UpdatedHistory(l.conversation_history, ai_response)
            updated_plan == SaveReturnsPlan(db, p, l.user, outcome)
        IN  /\ db' = update_conversation_history(db, p, l.user,
                        updated_conversation_history, l.thread_id, outcome)
            /\ resp' = [ChatResult(l, ai_response, updated_conversation_history,
                                   updated_plan, outcome)
                            EXCEPT !.request = l.message, !.answer = ai_response,
                                   !.outcomes = outcomes, !.owed = l.owed,
                                   !.destination = l.destination,
                                   !.save = IF updated_plan THEN "plan"
                                            ELSE IF outcome = "raised" THEN "raised"
                                            ELSE "no_plan"]
            /\ turns' = IF updated_plan /\ serial[p]
                        THEN [turns EXCEPT ![p] = Append(@, <<l.message, ai_response>>)]
                        ELSE turns
            /\ pc' = [pc EXCEPT ![w] = "idle"]
            /\ loc' = [loc EXCEPT ![w] = IdleLoc]

\* RaiseInvokeError treating every error as a tool-calling error: retried
\* while attempts remain, answered with the fallback text after the last.
RaiseInvokeError_Retry(w, e, outcomes) ==
    IF loc[w].attempt < max_retries - 1
    THEN /\ loc' = [loc EXCEPT ![w].attempt = @ + 1, ![w].outcomes = outcomes]
         /\ UNCHANGED <<pc, db, turns, resp>>
    ELSE SaveAndRespond(w, FallbackResponse(loc[w].destination), outcomes)

\* RaiseInvokeError answering the caller and staying in the turn.
RaiseInvokeError_NoExit(w, e, outcomes) ==
    /\ resp' = [StatusResp("chat", loc[w].user, loc[w].plan_id, 500, ProcessFailedDetail(e))
                    EXCEPT !.request = loc[w].message, !.outcomes = outcomes]
    /\ loc' = [loc EXCEPT ![w].attempt = max_retries, ![w].outcomes = outcomes]
    /\ UNCHANGED <<pc, db, turns>>

\* Lines 104-106 and 136-140: an error that is no tool-calling error is
\* raised again and answered with 500.
RaiseInvokeError(w, e, outcomes) ==
    /\ resp' = [StatusResp("chat", loc[w].user, loc[w].plan_id, 500, ProcessFailedDetail(e))
                    EXCEPT !.request = loc[w].message, !.outcomes = outcomes]
    /\ pc' = [pc EXCEPT ![w] = "idle"]
    /\ loc' = [loc EXCEPT ![w] = IdleLoc]
    /\ UNCHANGED <<db, turns>>

\* HandleToolCallError raising the last attempt's error instead of answering
\* with the fallback text.
HandleToolCallError_Raise(w, mr, outcomes) ==
    IF loc[w].attempt < mr - 1
    THEN /\ loc' = [loc EXCEPT
                ![w].langgraph_messages = Simplify(@),
                ![w].attempt = @ + 1,
                ![w].outcomes = outcomes]
         /\ UNCHANGED <<pc, db, turns, resp>>
    ELSE RaiseInvokeError(w, "tool_use_failed", outcomes)

\* HandleToolCallError with the log and the messages sharing their last
\* entry, so that the rewrite shows in the log.
HandleToolCallError_RewriteLog(w, mr, outcomes) ==
    IF loc[w].attempt < mr - 1
    THEN /\ loc' = [loc EXCEPT
                ![w].langgraph_messages = Simplify(@),
                ![w].conversation_history =
                    [@ EXCEPT ![Len(@)].content =
                        <<"Please provide information about: ">> \o @],
                ![w].attempt = @ + 1,
                ![w].outcomes = outcomes]
         /\ UNCHANGED <<pc, db, turns, resp>>
    ELSE SaveAndRespond(w, FallbackResponse(loc[w].destination), outcomes)

\* Lines 90-103: a tool-calling error is retried with a simplified last
\* message while attempts remain, and answered with the fallback text after
\* the last attempt.
HandleToolCallError(w, mr, outcomes) ==
    IF loc[w].attempt < mr - 1
    THEN /\ loc' = [loc EXCEPT
                ![w].langgraph_messages = Simplify(@),
                ![w].attempt = @ + 1,
                ![w].outcomes = outcomes]
         /\ UNCHANGED <<pc, db, turns, resp>>
    ELSE SaveAndRespond(w, FallbackResponse(loc[w].destination), outcomes)

\* agentic_workflow.py lines 26 and 92: the graph is compiled with the
\* builder's MemorySaver, so every react_app.invoke with a thread id leaves a
\* checkpoint under that id in the memory of the process that ran it.
Checkpoint(mem, w, thread_id) == [mem EXCEPT ![w] = @ \cup {thread_id}]

\* Lines 75-140: one pass of the retry loop (one react_app.invoke) and, when
\* the pass ends the loop, the save and the response that follow it.
continue_conversation_attempt(w, mr) ==
    /\ pc[w] = "invoke"
    /\ loc[w].attempt < mr
    /\ memory' = Checkpoint(memory, w, loc[w].thread_id)
    /\ \/ \E a \in Answers :
            SaveAndRespond(w, a, Append(loc[w].outcomes, "ok"))
       \/ \E e \in InvokeErrors :
            IF IsToolCallError(e)
            THEN HandleToolCallError(w, mr, Append(loc[w].outcomes, "tool"))
            ELSE RaiseInvokeError(w, e, Append(loc[w].outcomes, "other"))
    /\ UNCHANGED <<nreq, serial, graph, apart>>

\* Lines 75-140 when range(max_retries) is empty: no pass is made, and
\* ai_response is still the empty string when it is saved.
continue_conversation_no_attempt(w, mr) ==
    /\ pc[w] = "invoke"
    /\ loc[w].attempt >= mr
    /\ SaveAndRespond(w, <<>>, loc[w].outcomes)
    /\ UNCHANGED <<nreq, serial, memory, graph, apart>>

\* ------------------------------------------------------ POST /plans/generate
\* The id the table gives the next row: the integer primary key of the
\* default SQLite database (core/config.py) is one more than the largest id
\* in the table, so the id of a deleted last row is given again.  0 when the
\* table is full.
NextPlanId(d) ==
    LET used == {p \in PlanIds : d[p].exists}
        top == IF used = {} THEN 0 ELSE CHOOSE p \in used : \A q \in used : q <= p
    IN  IF top + 1 \in PlanIds THEN top + 1 ELSE 0

\* crud.create_travel_plan: a new row, with no conversation and no thread id.
create_travel_plan(d, plan_id, user_id, destination, content) ==
    [d EXCEPT ![plan_id] =
        [exists |-> TRUE, user_id |-> user_id, destination |-> destination,
         content |-> content, conversation_history |-> <<>>, thread_id |-> None]]

\* Lines 159-211: build the query, run the agent, create the plan row.
generate_and_save_travel_plan_begin(w) ==
    /\ Accepts(w)
    /\ nreq < MaxRequests
    /\ nreq' = nreq + 1
    /\ \E u \in Planners, dest \in Destinations, t \in Times :
        /\ memory' = Checkpoint(memory, w, NewThreadId(u, t))
        /\ \/ \E a \in PlanContents :
                LET p == NextPlanId(db)
                IN  /\ p # 0
                    /\ db' = create_travel_plan(db, p, u, dest, a)
                    /\ loc' = [loc EXCEPT ![w] =
                            [IdleLoc EXCEPT !.op = "generate", !.user = u, !.plan_id = p,
                                            !.destination = dest,
                                            !.message = FullQuery(dest),
                                            !.ai_response = a,
                                            !.thread_id = NewThreadId(u, t)]]
                    /\ pc' = [pc EXCEPT ![w] = "gen_conv"]
                    /\ resp' = resp
           \/ \E e \in InvokeErrors :
                /\ resp' = StatusResp("generate", u, 0, 500, GenerateFailedDetail(e))
                /\ UNCHANGED <<pc, loc, db>>
    /\ UNCHANGED <<turns, serial, graph, apart>>

\* Lines 217-257: store the initial conversation and answer the caller.  The
\* value update_conversation_history returns is not looked at.
generate_and_save_travel_plan_store(w) ==
    /\ pc[w] = "gen_conv"
    /\ \E outcome \in SaveOutcomes :
        LET l == loc[w]
            initial_conversation ==
                <<Msg("user", l.message), Msg("assistant", l.ai_response)>>
        IN  /\ db' = update_conversation_history(db, l.plan_id, l.user,
                        initial_conversation, l.thread_id, outcome)
            /\ resp' = IF outcome = "raised"
                        THEN StatusResp("generate", l.user, l.plan_id, 500,
                                       GenerateFailedDetail(DatabaseError))
                        ELSE StatusResp("generate", l.user, l.plan_id, 201, <<>>)
    /\ pc' = [pc EXCEPT ![w] = "idle"]
    /\ loc' = [loc EXCEPT ![w] = IdleLoc]
    /\ UNCHANGED <<nreq, turns, serial, memory, graph, apart>>

\* ------------------------------------------------- DELETE /plans/{plan_id}
\* crud.delete_travel_plan: the row is removed, and with it the log and the
\* thread id stored in it.
crud_delete_travel_plan(d, plan_id, user_id) ==
    IF get_travel_plan(d, plan_id, user_id).exists
    THEN [d EXCEPT ![plan_id] = NoRow]
    ELSE d

\* Lines 359-375: 204 when the plan was the caller's, else 404.  The
\* handler does not touch the graph builder or its MemorySaver.  The thread
\* id in the response is history: the thread the deleted plan had.
delete_travel_plan(w) ==
    /\ Accepts(w)
    /\ nreq < MaxRequests
    /\ nreq' = nreq + 1
    /\ \E u \in Users, p \in PlanIds :
        LET plan == get_travel_plan(db, p, u)
            success == plan.exists
        IN  /\ db' = crud_delete_travel_plan(db, p, u)
            /\ resp' = IF success
                        THEN [StatusResp("delete", u, p, 204, <<>>)
                                EXCEPT !.thread_id = ThreadIdOf(plan, u, p)]
                        ELSE StatusResp("delete", u, p, 404, NotFoundDetail)
            /\ turns' = IF success THEN [turns EXCEPT ![p] = <<>>] ELSE turns
            /\ serial' = IF success THEN [serial EXCEPT ![p] = ~Busy(p, w)] ELSE serial
    /\ UNCHANGED <<pc, loc, memory, graph, apart>>

Next ==
    \E w \in Workers :
        \/ continue_conversation_begin(w)
        \/ continue_conversation_attempt(w, max_retries)
        \/ generate_and_save_travel_plan_begin(w)
        \/ generate_and_save_travel_plan_store(w)
        \/ delete_travel_plan(w)

Spec == Init /\ [][Next]_vars

\* The handlers with max_retries set to 0 on line 75.
NextNoRetries ==
    \E w \in Workers :
        \/ continue_conversation_begin(w)
        \/ continue_conversation_no_attempt(w, 0)
        \/ generate_and_save_travel_plan_begin(w)
        \/ generate_and_save_travel_plan_store(w)
        \/ delete_travel_plan(w)

SpecNoRetries == Init /\ [][NextNoRetries]_vars

\* Follow-ups only, after one request that generated a plan for user 1 and
\* stored its initial conversation, when every call a handler blocks in
\* returns or raises: a worker that is inside a turn goes on with it.
InitFollowUps ==
    /\ db = [p \in PlanIds |->
            IF p = 1
            THEN [exists |-> TRUE, user_id |-> 1, destination |-> "Goa",
                  content |-> <<"plan">>,
                  conversation_history |->
                      <<Msg("user", FullQuery("Goa")), Msg("assistant", <<"plan">>)>>,
                  thread_id |-> NewThreadId(1, 7)]
            ELSE NoRow]
    /\ pc = [w \in Workers |-> "idle"]
    /\ loc = [w \in Workers |-> IdleLoc]
    /\ resp = StatusResp("generate", 1, 1, 201, <<>>)
    /\ nreq = 1
    /\ turns = [p \in PlanIds |-> <<>>]
    /\ serial = [p \in PlanIds |-> TRUE]
    /\ memory = [w \in Workers |-> IF w = 1 THEN {NewThreadId(1, 7)} ELSE {}]
    /\ graph = NoRun
    /\ legacy = NoRequest
    /\ tool = NoCall
    /\ limiter = NoCalls
    /\ auth = NoAuth

NextFollowUps ==
    \E w \in Workers :
        \/ continue_conversation_begin(w)
        \/ continue_conversation_attempt(w, max_retries)

SpecFollowUps ==
    /\ InitFollowUps
    /\ [][NextFollowUps]_vars
    /\ \A w \in Workers : WF_vars(continue_conversation_attempt(w, max_retries))

\* ------------------------------------------ one turn, inside react_app.invoke
\* The graph of build_graph (agentic_workflow.py lines 77-93) run step by
\* step, with the retry loop of continue_conversation around it.  A message
\* of the graph state is a record with a type, a content and, for a model
\* output, the number of tool calls it holds.

END == "__end__"

\* The logs a follow-up may bring: a seeded log, or a generated one, with the
\* user message appended.
TurnInputs ==
    {ToLangChain(<<Msg("assistant", c), Msg("user", m)>>) :
        c \in PlanContents, m \in UserMessages}
    \cup
    {ToLangChain(<<Msg("user", FullQuery(d)), Msg("assistant", c), Msg("user", m)>>) :
        d \in Destinations, c \in PlanContents, m \in UserMessages}

\* The model's output: a final answer, or a request for n tool calls.
AIMessage(content, n) == [type |-> "ai", content |-> content, tool_calls |-> n]

ToolMessage == [type |-> "tool", content |-> <<"result">>]

HasToolCalls(m) ==
    m.type = "ai" /\ "tool_calls" \in DOMAIN m /\ m.tool_calls > 0

\* langgraph.prebuilt.tools_condition, the conditional edge of line 87.
tools_condition(messages) ==
    IF HasToolCalls(messages[Len(messages)]) THEN "tools" ELSE END

\* NextNodes with the edge of line 89 read as ending the run.
NextNodes_EndWins(n, messages) ==
    IF n = "agent" THEN {} ELSE {"agent"}

\* Lines 86-89: the nodes scheduled after node n has run.  The edge
\* agent -> END of line 89 schedules nothing; the run ends when no node is
\* scheduled.
NextNodes(n, messages) ==
    IF n = "agent"
    THEN ({tools_condition(messages)} \cup {END}) \ {END}
    ELSE {"agent"}

\* Text of the error the library raises when a run takes too many steps.
GraphRecursionError == "Recursion limit reached without hitting a stop condition"

\* MessagesState's reducer add_messages: messages without an id are given a
\* new one and appended to those the state holds.
add_messages(left, right) == left \o right

\* What the process's MemorySaver may hold for the thread when a follow-up
\* begins: nothing (the thread was not run in this process), or, for a
\* thread opened by /plans/generate in this process, the messages of that
\* run: the query and the itinerary that the stored log starts with.
PriorCheckpoints(input) ==
    {<<>>} \cup
    (IF Len(input) = 3
     THEN {<<input[1], AIMessage(input[2].content, 0)>>}
     ELSE {})

InitTurn ==
    /\ InitHandlers
    /\ \E input \in TurnInputs, d \in Destinations :
        \E saved \in PriorCheckpoints(input) :
            graph = [NoRun EXCEPT !.node = "start", !.langgraph_messages = input,
                                  !.checkpoint = saved, !.destination = d]
    /\ legacy = NoRequest
    /\ tool = NoCall
    /\ limiter = NoCalls
    /\ auth = NoAuth

\* InvokeRaises going back for another pass after every tool-calling error,
\* the one of the last attempt too.
InvokeRaises_AlwaysRetry(e) ==
    IF IsToolCallError(e)
    THEN graph' = [graph EXCEPT !.langgraph_messages = Simplify(@),
                                !.attempt = @ + 1,
                                !.node = "start",
                                !.messages = <<>>,
                                !.steps = 0]
    ELSE graph' = [graph EXCEPT !.node = "done", !.result = "error"]

\* plans_routes.py lines 90-106 inside the loop of line 78: what the
\* handler does with an exception of react_app.invoke.
InvokeRaises(e) ==
    IF IsToolCallError(e)
    THEN IF graph.attempt < max_retries - 1
         THEN graph' = [graph EXCEPT !.langgraph_messages = Simplify(@),
                                     !.attempt = @ + 1,
                                     !.node = "start",
                                     !.messages = <<>>,
                                     !.steps = 0]
         ELSE graph' = [graph EXCEPT !.node = "done",
                                     !.ai_response = FallbackResponse(graph.destination),
                                     !.result = "fallback"]
    ELSE graph' = [graph EXCEPT !.node = "done", !.result = "error"]

\* Lines 78-80: a pass of the loop calls react_app.invoke; the run starts at
\* the agent node (line 86).  The graph is compiled with a checkpointer
\* (agentic_workflow.py line 92): the input is added to the messages saved
\* under the thread id, and the state is saved again after every step.
graph_invoke ==
    /\ graph.node = "start"
    /\ graph.attempt < max_retries
    /\ LET messages == add_messages(graph.checkpoint, graph.langgraph_messages)
       IN  graph' = [graph EXCEPT !.node = "agent",
                                  !.messages = messages,
                                  !.checkpoint = messages,
                                  !.steps = 0]
    /\ UNCHANGED <<handlers, apart>>

\* The nodes scheduled after n: the first of them runs next, and with none
\* the run is at END.
Schedule(n, messages) ==
    LET next == NextNodes(n, messages)
    IN  IF next = {} THEN "end" ELSE CHOOSE m \in next : TRUE

\* agentic_workflow.py lines 56-72: the model answers, asks for tools or
\* raises; the edges of lines 87-89 then say where the run goes.
agent_function ==
    /\ graph.node = "agent"
    /\ IF graph.steps >= RecursionLimit
       THEN InvokeRaises(GraphRecursionError)
       ELSE \/ \E a \in Answers, n \in 0..MaxToolCalls :
                LET response == IF n = 0 THEN AIMessage(a, 0) ELSE AIMessage(<<>>, n)
                    messages == Append(graph.messages, response)
                IN  graph' = [graph EXCEPT !.messages = messages,
                                           !.checkpoint = messages,
                                           !.steps = @ + 1,
                                           !.node = Schedule("agent", messages)]
            \/ \E e \in InvokeErrors : InvokeRaises(e)
    /\ UNCHANGED <<handlers, apart>>

\* Line 83: ToolNode runs the tool calls of the last model output and adds
\* one message for each, or a tool raises; line 88 leads back to the agent.
tool_node ==
    /\ graph.node = "tools"
    /\ IF graph.steps >= RecursionLimit
       THEN InvokeRaises(GraphRecursionError)
       ELSE \/ LET calls == graph.messages[Len(graph.messages)].tool_calls
                   messages == graph.messages \o [i \in 1..calls |-> ToolMessage]
               IN  graph' = [graph EXCEPT !.messages = messages,
                                          !.checkpoint = messages,
                                          !.steps = @ + 1,
                                          !.node = Schedule("tools", messages)]
            \/ \E e \in InvokeErrors : InvokeRaises(e)
    /\ UNCHANGED <<handlers, apart>>

\* plans_routes.py lines 83-88: the run is over, the content of its last
\* message is the answer, and the loop is left.
graph_returns ==
    /\ graph.node = "end"
    /\ graph' = [graph EXCEPT !.node = "done",
                              !.ai_response = graph.messages[Len(graph.messages)].content,
                              !.result = "answer"]
    /\ UNCHANGED <<handlers, apart>>

NextTurn ==
    \/ graph_invoke
    \/ agent_function
    \/ tool_node
    \/ graph_returns

\* Every call returns or raises: a step that can be taken is taken.
SpecTurn == InitTurn /\ [][NextTurn]_vars /\ WF_vars(NextTurn)

\* ------------------------------------------------ POST /query, /plan-trip
\* What the outcome of a request leaves: the counters, and the response.
Answered(ip, path, body, status, invoked, logged) ==
    [requests |-> is_allowed_requests(legacy.requests, ip, limit),
     path |-> path, client_ip |-> ip, body |-> body, status |-> status,
     invoked |-> invoked, logged |-> logged]

\* POST /query. The dependencies of the route are solved first, the body is
\* validated next, and the handler runs last.
query_travel_agent(ip) ==
    /\ \E body \in QueryBodies :
        IF ~is_allowed(legacy.requests, ip, limit)
        THEN legacy' = Answered(ip, "/query", body, 429, FALSE, FALSE)
        ELSE IF ~QueryRequest(body)
        THEN legacy' = Answered(ip, "/query", body, 422, FALSE, FALSE)
        ELSE \/ \E log \in BOOLEAN :
                    legacy' = Answered(ip, "/query", body, 200, TRUE, log)
             \/ legacy' = Answered(ip, "/query", body, 500, TRUE, FALSE)
    /\ UNCHANGED <<handlers, graph, tool, limiter, auth>>

\* POST /plan-trip. It calls query_travel_agent as a function, without a
\* database session: the query record is never written.
plan_detailed_trip(ip) ==
    /\ \E body \in TravelPlanBodies :
        IF ~is_allowed(legacy.requests, ip, limit)
        THEN legacy' = Answered(ip, "/plan-trip", body, 429, FALSE, FALSE)
        ELSE IF ~TravelPlanRequest(body)
        THEN legacy' = Answered(ip, "/plan-trip", body, 422, FALSE, FALSE)
        ELSE IF ~QueryRequest([body EXCEPT !.fields = {"question"},
                                           !.question = full_query(body)])
        THEN legacy' = Answered(ip, "/plan-trip", body, 500, FALSE, FALSE)
        ELSE \/ legacy' = Answered(ip, "/plan-trip", body, 200, TRUE, FALSE)
             \/ legacy' = Answered(ip, "/plan-trip", body, 500, TRUE, FALSE)
    /\ UNCHANGED <<handlers, graph, tool, limiter, auth>>

NextLegacy ==
    \E ip \in ClientIps :
        \/ query_travel_agent(ip)
        \/ plan_detailed_trip(ip)

SpecLegacy == Init /\ [][NextLegacy]_vars

\* ------------------------------------------------ place-search tools
\* What a tool call leaves: its inputs and what it returned.
Called(name, place, google, tavily, result) ==
    [name |-> name, place |-> place, google |-> google, tavily |-> tavily,
     result |-> result]

search_attractions ==
    /\ \E place \in Places, google \in GoogleOutcomes, tavily \in TavilyOutcomes :
        tool' = Called("search_attractions", place, google, tavily,
            place_search(
                <<"Following are the attractions of ", place, " as suggested by Google: ">>,
                <<"Following are the attractions of ", place, ": ">>,
                <<"Unable to fetch attractions for ", place,
                  ". Please try searching online for '", place, " tourist attractions'.">>,
                google, tavily))
    /\ UNCHANGED <<handlers, graph, legacy, limiter, auth>>

search_restaurants ==
    /\ \E place \in Places, google \in GoogleOutcomes, tavily \in TavilyOutcomes :
        tool' = Called("search_restaurants", place, google, tavily,
            place_search(
                <<"Following are the restaurants of ", place, " as suggested by Google: ">>,
                <<"Following are the restaurants of ", place, ": ">>,
                <<"Unable to fetch restaurants for ", place,
                  ". Please try searching online for '", place, " best restaurants'.">>,
                google, tavily))
    /\ UNCHANGED <<handlers, graph, legacy, limiter, auth>>

search_activities ==
    /\ \E place \in Places, google \in GoogleOutcomes, tavily \in TavilyOutcomes :
        tool' = Called("search_activities", place, google, tavily,
            place_search(
                <<"Following are the activities in and around ", place, " as suggested by Google: ">>,
                <<"Following are the activities of ", place, ": ">>,
                <<"Unable to fetch activities for ", place,
                  ". Please try searching online for '", place, " things to do'.">>,
                google, tavily))
    /\ UNCHANGED <<handlers, graph, legacy, limiter, auth>>

search_transportation ==
    /\ \E place \in Places, google \in GoogleOutcomes, tavily \in TavilyOutcomes :
        tool' = Called("search_transportation", place, google, tavily,
            place_search(
                <<"Following are the modes of transportation available in ", place,
                  " as suggested by Google: ">>,
                <<"Following are the modes of transportation available in ", place, ": ">>,
                <<"Unable to fetch transportation info for ", place,
                  ". Please try searching online for '", place, " transportation guide'.">>,
                google, tavily))
    /\ UNCHANGED <<handlers, graph, legacy, limiter, auth>>

NextPlaceSearch ==
    \/ search_attractions
    \/ search_restaurants
    \/ search_activities
    \/ search_transportation

SpecPlaceSearch == Init /\ [][NextPlaceSearch]_vars

\* ------------------------------------------------ RateLimiter
\* A call of rate_limiter.is_allowed(client_ip, limit) at the current minute.
\* The history count of granted calls is followed up to one past the limit.
rate_limiter_is_allowed(client_ip) ==
    /\ limiter.granted[client_ip] <= MaxAllowed
    /\ LET call == RateLimiter_is_allowed(limiter.requests, client_ip,
                                          MaxAllowed, limiter.minute)
       IN  limiter' = [limiter EXCEPT
                !.requests = call.requests,
                !.client_ip = client_ip,
                !.result = call.result,
                !.granted[client_ip] = IF call.result = "True" THEN @ + 1 ELSE @]
    /\ UNCHANGED <<handlers, graph, legacy, tool, auth>>

\* The clock reaches the next minute.
next_minute ==
    /\ limiter.minute + 1 \in Minutes
    /\ limiter' = [limiter EXCEPT !.minute = @ + 1,
                                  !.client_ip = "none",
                                  !.result = "none",
                                  !.granted = [ip \in RateIps |-> 0]]
    /\ UNCHANGED <<handlers, graph, legacy, tool, auth>>

NextRateLimiter ==
    \/ \E client_ip \in RateIps : rate_limiter_is_allowed(client_ip)
    \/ next_minute

SpecRateLimiter == Init /\ [][NextRateLimiter]_vars

\* ------------------------------------------------ password reset
\* The handlers are async functions that never await: one runs from start to
\* end before the next begins.  send_password_reset_email is a plain function
\* queued as a background task, which runs in a thread beside them; for that
\* reason reset_password is seen in two steps.  password_reset_tokens is a
\* dict of the process.

\* Two registered users.
InitPasswordReset ==
    /\ InitHandlers
    /\ graph = NoRun
    /\ legacy = NoRequest
    /\ tool = NoCall
    /\ limiter = NoCalls
    /\ auth = [NoAuth EXCEPT
            !.users = [id \in UserIds |->
                IF id = 1
                THEN [exists |-> TRUE, email |-> "a@x.org", username |-> "ann",
                      hashed_password |-> hash("secret")]
                ELSE IF id = 2
                THEN [exists |-> TRUE, email |-> "b@x.org", username |-> "bob",
                      hashed_password |-> hash("secret")]
                ELSE NoUser]]

\* Lines 204-241: 404 for an unknown email; else a new token is stored with
\* its expiry and the email task is queued.
forgot_password(email) ==
    /\ auth.reset.pc = "idle"
    /\ LET user == get_user_by_email(auth.users, email)
           reset_token == auth.issued + 1
       IN  IF user = 0
           THEN auth' = [auth EXCEPT
                    !.last = AuthResp("forgot", 404,
                                "No account found with this email address", 0)]
           ELSE /\ reset_token \in Tokens
                /\ auth' = [auth EXCEPT
                    !.tokens = SetItem(@, reset_token,
                        [email |-> auth.users[user].email,
                         expires |-> auth.now + hours, sent |-> FALSE]),
                    !.issued = reset_token,
                    !.mail = @ \cup {reset_token},
                    !.last = AuthResp("forgot", 200, "", 0)]
    /\ UNCHANGED <<handlers, graph, legacy, tool, limiter>>

\* Lines 243-300: the email is sent and the token marked, or sending fails
\* and the token is removed; marking a token that is gone raises KeyError,
\* which ends in the same except clause.
send_password_reset_email(token) ==
    /\ token \in auth.mail
    /\ \E smtp \in {"sent", "failed"} :
        auth' = [auth EXCEPT
            !.mail = @ \ {token},
            !.tokens =
                IF token \notin DOMAIN @ THEN @
                ELSE IF smtp = "sent"
                THEN SetItem(@, token, [@[token] EXCEPT !.sent = TRUE])
                ELSE DelItem(@, token)]
    /\ UNCHANGED <<handlers, graph, legacy, tool, limiter>>

\* Lines 308-331: the token is looked up, its expiry checked and its user
\* found.
reset_password_begin(token, new_password) ==
    /\ auth.reset.pc = "idle"
    /\ IF token \notin DOMAIN auth.tokens
       THEN auth' = [auth EXCEPT
                !.last = AuthResp("reset", 400, "Invalid or expired reset token", token)]
       ELSE LET token_data == auth.tokens[token]
                user == get_user_by_email(auth.users, token_data.email)
            IN  IF auth.now > token_data.expires
                THEN auth' = [auth EXCEPT
                        !.tokens = DelItem(@, token),
                        !.last = AuthResp("reset", 400, "Expired reset token", token)]
                ELSE IF user = 0
                THEN auth' = [auth EXCEPT
                        !.last = AuthResp("reset", 400, "User not found", token)]
                ELSE auth' = [auth EXCEPT
                        !.reset = [pc |-> "update", token |-> token,
                                   new_password |-> new_password, user_id |-> user,
                                   email |-> token_data.email,
                                   expires |-> token_data.expires]]
    /\ UNCHANGED <<handlers, graph, legacy, tool, limiter>>

\* Lines 333-352: UserUpdate refuses a password under 8 characters; else the
\* password is stored and the token removed.  Every error but HTTPException
\* is answered 500, the KeyError of removing a token that is gone included.
reset_password_update ==
    /\ auth.reset.pc = "update"
    /\ Len(auth.changes) <= MaxTokens
    /\ LET r == auth.reset
       IN  \/ /\ len(r.new_password) >= 8
              /\ auth' = [auth EXCEPT
                    !.users[r.user_id].hashed_password = hash(r.new_password),
                    !.changes = Append(@,
                        [token |-> r.token, user_id |-> r.user_id,
                         email |-> r.email, at |-> auth.now, expires |-> r.expires]),
                    !.tokens = DelItem(@, r.token),
                    !.reset = NoReset,
                    !.last = IF r.token \in DOMAIN auth.tokens
                             THEN AuthResp("reset", 200, "Password reset successfully", r.token)
                             ELSE AuthResp("reset", 500, "Password reset failed", r.token)]
           \/ /\ len(r.new_password) < 8
              /\ auth' = [auth EXCEPT
                    !.reset = NoReset,
                    !.last = AuthResp("reset", 500, "Password reset failed", r.token)]
           \/ \* the database raises
              auth' = [auth EXCEPT
                    !.reset = NoReset,
                    !.last = AuthResp("reset", 500, "Password reset failed", r.token)]
    /\ UNCHANGED <<handlers, graph, legacy, tool, limiter>>

\* Time passes between two requests.
clock_advances ==
    /\ auth.reset.pc = "idle"
    /\ auth.now + ClockStep <= MaxClock
    /\ auth' = [auth EXCEPT !.now = @ + ClockStep]
    /\ UNCHANGED <<handlers, graph, legacy, tool, limiter>>

NextPasswordReset ==
    \/ \E email \in Emails \cup {"nobody@x.org"} : forgot_password(email)
    \/ \E token \in Tokens : send_password_reset_email(token)
    \/ \E token \in Tokens, new_password \in Passwords :
            reset_password_begin(token, new_password)
    \/ reset_password_update
    \/ clock_advances

SpecPasswordReset == InitPasswordReset /\ [][NextPasswordReset]_vars

\* ------------------------------------------------ registration
\* Lines 25-56.  The two HTTPException(400) are raised inside the try block
\* whose only clause is `except Exception`; HTTPException is an Exception, so
\* the clause takes them and raises 500 in their place.
register_user(email, username, password) ==
    /\ auth.reset.pc = "idle"
    /\ \E db_session \in {"ok", "raises"} :
        LET by_email == get_user_by_email(auth.users, email)
            by_username == get_user_by_username(auth.users, username)
            free == {id \in UserIds : ~auth.users[id].exists}
            raised == \/ db_session = "raises"
                      \/ by_email # 0
                      \/ by_username # 0
            asked == [email_taken |-> by_email # 0,
                      username_taken |-> by_username # 0,
                      db |-> db_session]
        IN  IF raised
            THEN auth' = [auth EXCEPT
                    !.asked = asked,
                    !.last = AuthResp("register", 500, "Registration failed", 0)]
            ELSE /\ free # {}
                 /\ LET id == CHOOSE i \in free : \A j \in free : i <= j
                    IN  auth' = [auth EXCEPT
                            !.users[id] = [exists |-> TRUE, email |-> email,
                                           username |-> username,
                                           hashed_password |-> hash(password)],
                            !.asked = asked,
                            !.last = AuthResp("register", 201, "", 0)]
    /\ UNCHANGED <<handlers, graph, legacy, tool, limiter>>

NextRegister ==
    \E email \in Emails, username \in Usernames, password \in Passwords :
        register_user(email, username, password)

SpecRegister == Init /\ [][NextRegister]_vars

\* ------------------------------------------------------------------ properties
Last(seq) == seq[Len(seq)]

\* The follow-up handlers that have loaded the log and not yet saved it.
InTurn(w) == pc[w] = "invoke" /\ loc[w].op = "chat"

\* C1: at most one follow-up on a thread is between loading the log and
\* saving it; a second one on the same thread does not load the log or start
\* its agent run meanwhile.
C1_OneRunPerThread ==
    \A v, w \in Workers :
        (v # w /\ InTurn(v) /\ InTurn(w)) => loc[v].thread_id # loc[w].thread_id

\* The user message and the answer of each saved follow-up, one after the
\* other.
RECURSIVE Pairs(_)
Pairs(ts) ==
    IF ts = <<>> THEN <<>>
    ELSE <<Msg("user", ts[1][1]), Msg("assistant", ts[1][2])>> \o Pairs(Tail(ts))

\* A thread that generate_and_save_travel_plan stored.
IsNewThreadId(tid) == tid # None /\ tid[3] = "_new_plan_"

\* What a plan's log starts with: the query and the itinerary when the thread
\* was stored on generation, the itinerary alone when the first follow-up
\* seeded it.
SeedOf(row) ==
    IF IsNewThreadId(row.thread_id)
    THEN <<Msg("user", FullQuery(row.destination)), Msg("assistant", row.content)>>
    ELSE <<Msg("assistant", row.content)>>

\* A plan whose thread is stored and whose handlers never overlapped.
SerialThread(p) == db[p].exists /\ db[p].thread_id # None /\ serial[p]

\* C2 as stated: after N follow-ups sent one after the other the stored log
\* has 1 + 2N entries, a one-entry seed and then each follow-up's user message
\* and answer in order, however the thread was created.
C2_OneSeedPlusPairs ==
    \A p \in PlanIds :
        SerialThread(p) =>
            /\ Len(db[p].conversation_history) = 1 + 2 * Len(turns[p])
            /\ SubSeq(db[p].conversation_history, 2, Len(db[p].conversation_history))
                 = Pairs(turns[p])

\* C2 as amended: after N follow-ups sent one after the other the stored log
\* is the seed followed by each follow-up's user message and answer in order;
\* the seed has two entries (query, itinerary) on a thread stored at
\* generation and one entry (itinerary) on a thread seeded by the first
\* follow-up, so the log has 2 + 2N or 1 + 2N entries.
C2_SeedPlusPairs ==
    \A p \in PlanIds :
        SerialThread(p) =>
            /\ db[p].conversation_history = SeedOf(db[p]) \o Pairs(turns[p])
            /\ Len(db[p].conversation_history) =
                 (IF IsNewThreadId(db[p].thread_id) THEN 2 ELSE 1) + 2 * Len(turns[p])

\* Two follow-ups sent one after the other to a thread stored at generation.
C2_Witness ==
    \E p \in PlanIds :
        SerialThread(p) /\ IsNewThreadId(db[p].thread_id) /\ Len(turns[p]) = 2

\* C3: a follow-up's save only appends: the log stored before it is a prefix
\* of the log stored after it.  (Stated for the saves of follow-ups that
\* loaded the thread that is stored.)
C3_AppendOnly ==
    [][\A w \in Workers :
        (InTurn(w) /\ pc'[w] = "idle"
            /\ db[loc[w].plan_id].thread_id = loc[w].thread_id)
        => IsPrefix(db[loc[w].plan_id].conversation_history,
                    db'[loc[w].plan_id].conversation_history)]_vars
\* A turn that ended and all of whose agent runs raised a tool-calling error.
AllToolFailures(r) ==
    /\ r.op = "chat"
    /\ r.outcomes # <<>>
    /\ \A i \in 1..Len(r.outcomes) : r.outcomes[i] = "tool"

\* C4: a turn all of whose agent runs raised a tool-calling error is not
\* answered with that error: its answer is the fallback text, which is not
\* empty and names the plan's destination, and that text is the assistant
\* message appended, stored and returned (the one error left is a failed
\* save, which is answered as C9 says).
C4_FallbackAnswer ==
    AllToolFailures(resp) =>
        LET dest == resp.destination
        IN  /\ resp.answer = FallbackResponse(dest)
            /\ Len(resp.answer) > 0
            /\ Contains(resp.answer, dest)
            /\ resp.save = "plan" =>
                /\ resp.status = 200
                /\ resp.message = resp.answer
                /\ Last(resp.conversation_history) = Msg("assistant", resp.answer)
                /\ db[resp.plan_id].conversation_history = resp.conversation_history
            /\ resp.save # "plan" => SaveFailed(resp)

\* A turn answered with the fallback text after two failed runs.
C4_Witness ==
    resp.outcomes = <<"tool", "tool">> /\ resp.status = 200

\* The outcomes of worker w's turn after a step.
OutcomesAfter(w) == IF pc'[w] = "invoke" THEN loc'[w].outcomes ELSE resp'.outcomes

\* C5: when an agent run raises an error that is no tool-calling error the
\* turn ends at once: no further run, a 500 answer with no assistant message,
\* and the table (log and thread id) as it was.
C5_FatalErrorNotRetried ==
    [][\A w \in Workers :
        (InTurn(w) /\ loc'[w] # loc[w]
            /\ OutcomesAfter(w) = Append(loc[w].outcomes, "other"))
        => /\ pc'[w] = "idle"
           /\ resp'.op = "chat" /\ resp'.status = 500
           /\ resp'.detail \in {ProcessFailedDetail(e) :
                                   e \in {x \in InvokeErrors : ~IsToolCallError(x)}}
           /\ resp'.message = <<>> /\ resp'.conversation_history = <<>>
           /\ db' = db]_vars

\* A turn ended by such an error on its second run.
C5_Witness ==
    resp.op = "chat" /\ resp.outcomes = <<"tool", "other">>

\* C6: with max_retries = 2 a turn whose first and second run raise a
\* tool-calling error goes on to a third run and ends with the model's answer,
\* not the fallback text; on a thread seeded with one message the log then
\* has three entries, the user message and the model's answer last.
C6_ThirdAttemptAnswers ==
    (resp.op = "chat" /\ resp.save = "plan" /\ Len(resp.outcomes) >= 2
        /\ resp.outcomes[1] = "tool" /\ resp.outcomes[2] = "tool")
    => /\ resp.message \in Answers
       /\ Last(resp.conversation_history).content \in Answers
       /\ resp.outcomes = <<"tool", "tool", "ok">>

C8_RoundTrip ==
    [][\A w \in Workers :
        (InTurn(w) /\ pc'[w] = "idle" /\ resp'.status = 200)
        => LET h == get_conversation_history(db', loc[w].plan_id, loc[w].user)
               started == Len(loc[w].conversation_history) - 1
               m == Msg("assistant", resp'.message)
           IN  /\ h.status = 200
               /\ h.message_count = started + 2
               /\ Last(h.conversation) = m
               /\ Cardinality({i \in (started + 1)..h.message_count :
                                h.conversation[i] = m}) = 1
               /\ SubSeq(h.conversation, 1, started + 1) = loc[w].conversation_history
               /\ h.conversation = resp'.conversation_history]_vars

\* A second follow-up answered on a plan.
C8_Witness ==
    /\ resp.op = "chat" /\ resp.status = 200
    /\ Len(resp.conversation_history) >= 5

\* C9: when the save of the updated log fails (the write returns no plan, or
\* raises), the follow-up is answered 500 and with no ChatResponse, and the
\* stored log and thread id are as before.
C9_SaveFailureIsError ==
    [][\A w \in Workers :
        (InTurn(w) /\ pc'[w] = "idle" /\ resp'.save \in {"no_plan", "raised"})
        => /\ resp'.status = 500
           /\ resp'.message = <<>>
           /\ resp'.conversation_history = <<>>
           /\ resp'.thread_id = None
           /\ resp'.detail = (IF resp'.save = "no_plan" THEN SaveFailedDetail
                              ELSE ProcessFailedDetail(DatabaseError))
           /\ db' = db]_vars

\* A follow-up whose save returned no plan.
C9_Witness ==
    resp.op = "chat" /\ resp.save = "no_plan" /\ resp.answer \in Answers

\* a followed directly by b in log, before the log's last two entries.
HoldsTurnBefore(log, a, b) ==
    \E i \in 1..(Len(log) - 3) : log[i] = a /\ log[i + 1] = b

\* C10: the log saved by a follow-up that began after a turn whose save had
\* failed holds that turn's user message and answer before its own.
C10_NoHistoryLost ==
    (resp.op = "chat" /\ resp.status = 200)
    => \A t \in resp.owed : HoldsTurnBefore(resp.conversation_history, t[1], t[2])
\* The first assistant message a log is seeded with from the plan.
Seed(row) == Msg("assistant", row.content)

\* C11: a follow-up that found no stored log persists a log whose first entry
\* is the plan's content as an assistant message, and a stored log that
\* starts with that entry starts with it after every later step on the plan.
C11_SeedStaysFirst ==
    [][\A p \in PlanIds :
        /\ \A w \in Workers :
            (InTurn(w) /\ loc[w].plan_id = p /\ Len(loc[w].conversation_history) = 2
                /\ pc'[w] = "idle" /\ resp'.save = "plan")
            => db'[p].conversation_history[1] = Seed(db[p])
        /\ (db[p].exists /\ db'[p].exists
                /\ db[p].conversation_history # <<>>
                /\ db[p].conversation_history[1] = Seed(db[p]))
            => /\ db'[p].conversation_history # <<>>
               /\ db'[p].conversation_history[1] = Seed(db[p])]_vars

\* C12: a plan row that exists has a stored conversation log that is not
\* empty, in every state, those inside generate_and_save_travel_plan and
\* those after a failed save of the initial conversation included.
C12_LogNeverEmpty ==
    \A p \in PlanIds : db[p].exists => db[p].conversation_history # <<>>

\* C13: no two plans have the same stored thread id.
C13_ThreadIdUnique ==
    \A p, q \in PlanIds :
        (p # q /\ db[p].exists /\ db[q].exists /\ db[p].thread_id # None)
        => db[p].thread_id # db[q].thread_id
\* C14: after a plan is deleted nothing of its thread is left: the history
\* of the plan is not found, and no worker's conversation memory holds a
\* checkpoint under the thread id the plan had.
C14_DeleteDestroysThread ==
    (resp.op = "delete" /\ resp.status = 204)
    => /\ get_conversation_history(db, resp.plan_id, resp.user).status = 404
       /\ \A w \in Workers : resp.thread_id \notin memory[w]

\* C15: a follow-up begins on a thread on which another follow-up is between
\* load and save only with that follow-up's log, its user message included,
\* as the start of its own context.
C15_SecondAfterFirstSaved ==
    [][\A w \in Workers :
        (pc[w] = "idle" /\ pc'[w] = "invoke" /\ loc'[w].op = "chat")
        => \A v \in Workers \ {w} :
            (InTurn(v) /\ loc[v].thread_id = loc'[w].thread_id)
            => /\ IsPrefix(loc[v].conversation_history, loc'[w].conversation_history)
               /\ Len(loc'[w].conversation_history) >= Len(loc[v].conversation_history) + 2]_vars

\* C16: while a follow-up is in flight on one thread, a follow-up on a plan
\* with another thread need not wait: a worker process is free to take it.
C16_OtherThreadCanStart ==
    \A w \in Workers :
        InTurn(w)
        => \A p \in PlanIds :
            (db[p].exists /\ ThreadIdOf(db[p], db[p].user_id, p) # loc[w].thread_id)
            => \E v \in Workers : Accepts(v)
\* C19: a run goes from the agent node to the tools node exactly when the
\* model's latest output holds a tool call, and to END exactly when it holds
\* none; the tools node and END are entered from the agent node only, the
\* tools node leads back to the agent, and nothing runs after END.
C19_AgentRouting ==
    [][/\ (graph.node = "agent" /\ graph'.node \in {"tools", "end"})
            => LET out == Last(graph'.messages)
               IN  /\ out.type = "ai"
                   /\ graph'.node = "tools" <=> out.tool_calls > 0
                   /\ graph'.node = "end" <=> out.tool_calls = 0
       /\ (graph'.node \in {"tools", "end"} /\ graph'.node # graph.node)
            => graph.node = "agent"
       /\ (graph.node = "tools" /\ graph'.node # "tools")
            => graph'.node \in {"agent", "start", "done"}
       /\ (graph.node = "end" /\ graph'.node # "end")
            => graph'.node = "done" /\ graph'.result = "answer"]_vars

\* A run that called tools, came back to the agent and reached END.
C19_Witness ==
    /\ graph.node = "end"
    /\ \E i \in 1..Len(graph.messages) : graph.messages[i].type = "tool"

\* C20: a follow-up turn ends, with an assistant message (the model's answer
\* or the fallback text) or with an error; no run takes more steps than the
\* recursion limit allows and the loop makes at most max_retries attempts.
C20_TurnTerminates ==
    /\ <>(graph.node = "done" /\ graph.result \in {"answer", "fallback", "error"})
    /\ [](graph.steps <= RecursionLimit /\ graph.attempt < max_retries)

\* A turn ended by the recursion limit, the model having asked for tools in
\* every output.
C20_Witness ==
    /\ graph.node = "done" /\ graph.result = "error"
    /\ graph.steps = RecursionLimit
    /\ \E i \in 1..Len(graph.messages) : HasToolCalls(graph.messages[i])
InvalidRequest(l) ==
    \/ /\ l.path = "/query"
       /\ \/ "question" \notin l.body.fields
          \/ Len(l.body.question) < 5
    \/ /\ l.path = "/plan-trip"
       /\ \/ l.body.duration < 1
          \/ /\ "preferences" \in l.body.fields
             /\ \E i \in DOMAIN l.body.preferences :
                    lower(l.body.preferences[i]) \notin valid_preferences

SimplifiedContent(message) == <<"Please provide information about: ">> \o message

\* C21: a retry after a tool-calling error hands the agent the previous
\* attempt's messages with the last one replaced by a user message whose text
\* is "Please provide information about: " followed by the text the caller
\* sent; every earlier message is the same.
C21_RetryRewritesLastOnly ==
    [][\A w \in Workers :
          (InTurn(w) /\ InTurn(w)' /\ loc'[w].attempt = loc[w].attempt + 1) =>
              LET before == loc[w].langgraph_messages
                  after == loc'[w].langgraph_messages
                  n == Len(before)
              IN  /\ Len(after) = n
                  /\ \A i \in 1..(n - 1) : after[i] = before[i]
                  /\ after[n] = [type |-> "human",
                                 content |-> SimplifiedContent(loc[w].message)]
      ]_vars

C21_Witness ==
    \E w \in Workers :
        /\ InTurn(w)
        /\ loc[w].attempt = 1
        /\ Len(loc[w].langgraph_messages) >= 3
        /\ Last(loc[w].langgraph_messages).content = SimplifiedContent(loc[w].message)
        /\ loc[w].outcomes = <<"tool">>

\* C22: the first agent step of a run receives, after the system prompt, the
\* messages the handler passed in, which are the stored log followed by the
\* new user message, each once and in order.
C22_AgentReceivesLog ==
    (graph.node = "agent" /\ graph.steps = 0) =>
        graph.messages = graph.langgraph_messages

\* C23: a retry's rewrite of the message in flight leaves the log as it was,
\* and the log a follow-up saves and returns is the log it loaded, the
\* caller's message as it was sent, and the answer.
C23_LogKeepsOriginal ==
    [][\A w \in Workers :
          InTurn(w) =>
              LET l == loc[w]
                  n == Len(l.conversation_history)
              IN  /\ l.conversation_history[n] = Msg("user", l.message)
                  /\ InTurn(w)' =>
                        loc'[w].conversation_history = l.conversation_history
                  /\ (~InTurn(w)' /\ resp'.status = 200) =>
                        /\ Len(resp'.conversation_history) = n + 1
                        /\ SubSeq(resp'.conversation_history, 1, n) = l.conversation_history
                        /\ db'[l.plan_id].conversation_history = resp'.conversation_history
      ]_vars

\* A turn answered after a retry, its user entry being the text sent.
C23_Witness ==
    /\ resp.op = "chat" /\ resp.status = 200
    /\ resp.outcomes = <<"tool", "ok">>
    /\ Len(resp.conversation_history) >= 4
    /\ resp.conversation_history[Len(resp.conversation_history) - 1]
            = Msg("user", resp.request)
    /\ db[resp.plan_id].conversation_history = resp.conversation_history

\* The roles of a log alternate and the last entry is the assistant's.
Alternates(log) ==
    /\ \A i \in 1..(Len(log) - 1) : log[i].role # log[i + 1].role
    /\ \A i \in 1..Len(log) : log[i].role \in {"user", "assistant"}
    /\ Last(log).role = "assistant"

\* C24: every stored log that is not empty, as a history read of its owner
\* returns it, alternates between user and assistant entries and ends with an
\* assistant entry; so does the log of every ChatResponse.
C24_RolesAlternate ==
    /\ \A p \in PlanIds, u \in Users :
          LET read == get_conversation_history(db, p, u)
          IN  (read.status = 200 /\ read.conversation # <<>>)
                  => Alternates(read.conversation)
    /\ (resp.op = "chat" /\ resp.status = 200)
          => Alternates(resp.conversation_history)

\* A generated plan's log after a follow-up answered with the fallback text.
C24_Witness ==
    \E p \in PlanIds :
        /\ db[p].exists
        /\ Len(db[p].conversation_history) = 4
        /\ db[p].conversation_history[1].role = "user"
        /\ Last(db[p].conversation_history).content = FallbackResponse(db[p].destination)

\* C25: a thread id stored for a plan stays the plan's thread id: no step
\* replaces it by another while the plan exists, and the ChatResponse of a
\* follow-up carries the thread id that is stored when it is sent.
C25_ThreadIdStable ==
    [][/\ \A p \in PlanIds :
            (db[p].exists /\ db[p].thread_id # None /\ db'[p].exists)
                => db'[p].thread_id = db[p].thread_id
       /\ (resp' # resp /\ resp'.op = "chat" /\ resp'.status = 200)
            => db'[resp'.plan_id].thread_id = resp'.thread_id
      ]_vars

\* The plan is there and is this user's.
Owns(u, p) == p \in PlanIds /\ db[p].exists /\ db[p].user_id = u

\* C26: a follow-up for a plan that is not there or not the caller's is
\* answered 404 "Travel plan not found" and nothing else happens: no worker
\* starts a turn, no run leaves a checkpoint, the table is as it was, and the
\* response holds no log and no thread id; a follow-up starts a turn only on
\* a plan of its caller.  A history read of such a plan is answered 404 with
\* no log and no thread id.
C26_NotFoundBeforeWork ==
    [][/\ (nreq' = nreq + 1 /\ pc' = pc /\ resp'.op = "chat") =>
            /\ ~Owns(resp'.user, resp'.plan_id)
            /\ resp' = StatusResp("chat", resp'.user, resp'.plan_id, 404, NotFoundDetail)
            /\ db' = db
            /\ memory' = memory
            /\ loc' = loc
       /\ \A w \in Workers :
            (~InTurn(w) /\ InTurn(w)') =>
                /\ Owns(loc'[w].user, loc'[w].plan_id)
                /\ resp' = resp
       /\ \A u \in Users, p \in PlanIds :
            ~Owns(u, p) =>
                get_conversation_history(db, p, u) =
                    [status |-> 404, plan_id |-> p, thread_id |-> None,
                     conversation |-> <<>>, message_count |-> 0]
      ]_vars

\* A follow-up for another user's plan, which has a log, was answered 404.
C26_Witness ==
    /\ resp.op = "chat" /\ resp.status = 404
    /\ resp.plan_id \in PlanIds
    /\ db[resp.plan_id].exists
    /\ db[resp.plan_id].user_id # resp.user
    /\ Len(db[resp.plan_id].conversation_history) >= 4

\* C27: a place-search tool returns a text that is not empty on every path:
\* Google's result when Google answers, Tavily's when Google fails, the
\* "Unable to fetch" text when both fail, and never nothing when Google
\* answers with an empty result.
C27_ToolAlwaysReturnsText ==
    tool.name # "none" =>
        /\ tool.result # None
        /\ (tool.google.kind = "returns" /\ tool.google.value # "")
                => Last(tool.result) = tool.google.value
        /\ (tool.google.kind = "raises" /\ tool.tavily.kind = "returns")
                => Last(tool.result) = tool.tavily.value
        /\ (tool.google.kind = "raises" /\ tool.tavily.kind = "raises")
                => tool.result[1] \in
                    {"Unable to fetch attractions for ",
                     "Unable to fetch restaurants for ",
                     "Unable to fetch activities for ",
                     "Unable to fetch transportation info for "}

\* C28: within one minute is_allowed answers True to at most limit calls of
\* an address and False to every further one; a call answered False leaves
\* the counters as they were; a call of one address leaves the counters of
\* the others as they were.
C28_LimitEnforced ==
    [][/\ \A ip \in RateIps : limiter'.granted[ip] <= MaxAllowed
       /\ \A ip \in RateIps :
            (limiter'.client_ip = ip /\ limiter'.minute = limiter.minute
                /\ limiter.granted[ip] >= MaxAllowed)
                => limiter'.result = "False"
       /\ limiter'.result = "False" => limiter'.requests = limiter.requests
       /\ \A key \in DOMAIN limiter.requests :
            (limiter'.minute = limiter.minute
                /\ key.client_ip # limiter'.client_ip
                /\ key.minute_window = limiter.minute)
                => /\ key \in DOMAIN limiter'.requests
                   /\ limiter'.requests[key] = limiter.requests[key]
      ]_vars

\* C29: a reset token changes a password at most once, never after its
\* expiry, and only the password of the account that has the email it was
\* issued for; a token that changed a password, and a token whose use was
\* refused as expired, is not in the store.
C29_TokenSingleUse ==
    /\ \A i, j \in DOMAIN auth.changes :
          i # j => auth.changes[i].token # auth.changes[j].token
    /\ \A i \in DOMAIN auth.changes :
          LET c == auth.changes[i]
          IN  /\ c.at <= c.expires
              /\ auth.users[c.user_id].email = c.email
              /\ c.token \notin DOMAIN auth.tokens
    /\ (auth.last.op = "reset"
            /\ auth.last.detail \in {"Password reset successfully", "Expired reset token"})
          => auth.last.token \notin DOMAIN auth.tokens

\* One token has changed a password and the use of another was refused as
\* expired.
C29_Witness ==
    /\ Len(auth.changes) = 1
    /\ auth.users[auth.changes[1].user_id].hashed_password = hash("longsecret")
    /\ auth.last.detail = "Expired reset token"
    /\ auth.last.token # auth.changes[1].token
    /\ auth.now > hours

\* C30: when the database answers, a register request whose email is in the
\* table is answered 400 'Email already registered', one whose username is in
\* the table is answered 400 'Username already taken', and no register
\* request is answered 500.
C30_DuplicateIs400 ==
    (auth.last.op = "register" /\ auth.asked.db = "ok") =>
        /\ auth.asked.email_taken =>
              /\ auth.last.status = 400
              /\ auth.last.detail = "Email already registered"
        /\ (~auth.asked.email_taken /\ auth.asked.username_taken) =>
              /\ auth.last.status = 400
              /\ auth.last.detail = "Username already taken"
        /\ auth.last.status # 500

====
